---- MODULE Spec2Model ----
(***************************************************************************)
(* Model of the authentication core of the support CRM backend:           *)
(* app/routers/utils.py (password hasher, token codec, authenticator,      *)
(* identity resolver), app/auth.py (register, login, /auth/me) and the     *)
(* users table of app/models.py.                                           *)
(*                                                                         *)
(* Time is counted in minutes.  `clock` is the value both sides of the     *)
(* token codec read from datetime.utcnow().                                *)
(*                                                                         *)
(* Library functions are modelled symbolically:                            *)
(*   bcrypt  - Bcrypt(salt, pw) is an injective constructor, every call of *)
(*             the hasher draws a fresh salt (saltCtr);                    *)
(*   HS256   - Sign(key, sub, exp) is an injective constructor.            *)
(***************************************************************************)
EXTENDS Integers, Sequences, FiniteSets, TLC

VARIABLES
    users,      \* rows of table "users", in insertion order
    plain,      \* ghost: plain[i] is the password row i was registered with
    saltCtr,    \* number of salts drawn by the hasher so far
    clock,      \* utcnow(), in minutes
    issued,     \* ghost: what create_access_token has returned, when and for which ttl
    req,        \* the last request served by an atomic handler
    resp,       \* its response
    guard,      \* ghost: how the identity resolver settled the last request
    reg,        \* register requests in flight (interleaved specification)
    customers,  \* rows of table "customers"
    tickets,    \* rows of table "tickets"
    logs,       \* rows of table "logs"
    body,       \* the records the last response carries
    arg,        \* ghost: path parameter and payload of the last request
    gd,         \* a request inside the identity resolver, stage by stage
    mig         \* the file crm.db as migrate_db.py sees it: schema and rows

\* what the authentication handlers never touch
more == <<customers, tickets, logs, body, arg, gd, mig>>

vars == <<users, plain, saltCtr, clock, issued, req, resp, guard, reg, more>>

---------------------------------------------------------------------------
(* Bounds of the model *)

MaxUsers  == 2      \* rows the users table may hold
MaxTokens == 2      \* tokens login may issue
MaxDirect == 1      \* tokens direct calls of create_access_token may issue
MaxClock  == 31     \* last minute the clock reaches
TickMinutes == 15   \* the clock's coarse step
MaxForge  == 1      \* minutes by which a forger tries to move an expiry
NumReq    == 2      \* register requests that may run interleaved
MaxHash   == 3      \* calls of the password hasher by interleaved requests
MaxCustomers == 2   \* rows the customers table may hold
MaxTickets == 2     \* rows the tickets table may hold
MaxLogs   == 1      \* rows the logs table may hold
MaxId     == 2      \* largest primary key a table hands out
MaxRuns   == 2      \* runs of migrate_database

(* Input alphabets *)

Usernames == {"alice", "bob"}
Emails    == {"alice@example.com", "bob@example.com"}
Passwords == {"pw123", "hunter2"}
Roles     == {"agent"}

---------------------------------------------------------------------------
(* Program constants *)

SECRET_KEY == "your-secret-key"
DefaultExpireMinutes == 15         \* create_access_token without expires_delta
LoginExpireMinutes == 30           \* timedelta(minutes=30) in login

OtherKeys == {"attacker-key"}      \* keys of whoever does not hold SECRET_KEY
NoSub == "<no sub claim>"          \* payload.get("sub") is None
NoName == "<none>"

---------------------------------------------------------------------------
(* users table: app/models.py *)

\* What SQLite stores in the String column is_active for a Python bool:
\* the bound integer is converted to text by the column's TEXT affinity.
StoreFlag(b) == IF b THEN "1" ELSE "0"

\* Values column users.is_active can hold: what the ORM stores for True and
\* for False, and SQL NULL (Python None), written "NULL": the column is
\* nullable.
FlagValues == {StoreFlag(TRUE), StoreFlag(FALSE), "NULL"}

\* Values of the column that mean "not active".
FalseFlags == {StoreFlag(FALSE), "NULL"}

\* Python truthiness of the value read back from the column:
\* None and "" are falsy, every other string is truthy.
Truthy(v) == v # "NULL" /\ v # ""

\* Mutant: the column has no default, a new row holds NULL
DefaultIsActiveNull == "NULL"

\* Column(String, default=True): the default applied on INSERT.
DefaultIsActive == StoreFlag(TRUE)

NoRow == 0

\* db.query(User).filter(User.username == u).first(): index of the row or NoRow
FirstByUsername(tbl, u) ==
    LET hits == {i \in 1..Len(tbl) : tbl[i].username = u}
    IN  IF hits = {} THEN NoRow ELSE CHOOSE i \in hits : \A j \in hits : i <= j

\* db.query(User).filter(User.email == e).first()
FirstByEmail(tbl, e) ==
    LET hits == {i \in 1..Len(tbl) : tbl[i].email = e}
    IN  IF hits = {} THEN NoRow ELSE CHOOSE i \in hits : \A j \in hits : i <= j

\* Mutant: only the username column carries a unique index
UniqueOkUsernameOnly(tbl, row) ==
    \A i \in 1..Len(tbl) : tbl[i].username # row.username

\* unique=True on username and on email: may the row be inserted?
UniqueOk(tbl, row) ==
    \A i \in 1..Len(tbl) : tbl[i].username # row.username /\ tbl[i].email # row.email

---------------------------------------------------------------------------
(* Password hasher: utils.py 30-53 *)

Bcrypt(salt, pw) == <<salt, pw>>

get_password_hash(password, salt) == [salt |-> salt, hash |-> Bcrypt(salt, password)]

\* Mutant: the digest is checked for being well formed, not against the password
verify_password_any(plain_password, hashed_password) ==
    hashed_password.hash[1] = hashed_password.salt

verify_password(plain_password, hashed_password) ==
    Bcrypt(hashed_password.salt, plain_password) = hashed_password.hash

---------------------------------------------------------------------------
(* Token codec: utils.py 55-79 and jwt.decode as called at utils.py 126 *)

Sign(key, sub, exp) == <<key, sub, exp>>

NoDelta == {}                       \* expires_delta = None
Delta(n) == {n}                     \* expires_delta = timedelta(minutes=n)
DeltaMinutes(d) == CHOOSE n \in d : TRUE

\* `if expires_delta:` - a timedelta is truthy unless it is zero
DeltaTruthy(d) == d # {} /\ d # {0}

\* Mutant: the payload is signed before the exp claim is put into it
create_access_token_signs_early(sub, expires_delta, now) ==
    LET expire == IF DeltaTruthy(expires_delta)
                  THEN now + DeltaMinutes(expires_delta)
                  ELSE now + DefaultExpireMinutes
    IN  [kind |-> "jwt", sub |-> sub, exp |-> expire,
         sig |-> Sign(SECRET_KEY, sub, 0)]

create_access_token(sub, expires_delta, now) ==
    LET expire == IF DeltaTruthy(expires_delta)
                  THEN now + DeltaMinutes(expires_delta)
                  ELSE now + DefaultExpireMinutes
    IN  [kind |-> "jwt", sub |-> sub, exp |-> expire,
         sig |-> Sign(SECRET_KEY, sub, expire)]

Garbage  == [kind |-> "garbage",   sub |-> NoSub, exp |-> 0, sig |-> Sign("", NoSub, 0)]
NoHeader == [kind |-> "no header", sub |-> NoSub, exp |-> 0, sig |-> Sign("", NoSub, 0)]

\* Mutant: a token is expired from its expiry minute on (exp <= now)
jwt_decode_expiry_inclusive(token, key, now) ==
    IF token.kind # "jwt" THEN [ok |-> FALSE, err |-> "Malformed", sub |-> NoSub]
    ELSE IF token.sig # Sign(key, token.sub, token.exp)
         THEN [ok |-> FALSE, err |-> "BadSignature", sub |-> NoSub]
    ELSE IF token.exp <= now
         THEN [ok |-> FALSE, err |-> "Expired", sub |-> NoSub]
    ELSE [ok |-> TRUE, err |-> "", sub |-> token.sub]

\* Mutant: the claims are read without verifying the signature
jwt_decode_unverified(token, key, now) ==
    IF token.kind # "jwt" THEN [ok |-> FALSE, err |-> "Malformed", sub |-> NoSub]
    ELSE IF token.exp < now
         THEN [ok |-> FALSE, err |-> "Expired", sub |-> NoSub]
    ELSE [ok |-> TRUE, err |-> "", sub |-> token.sub]

\* jwt.decode(token, key, algorithms=[ALGORITHM]): the signature is verified
\* first, then the exp claim (expired when exp < now).
jwt_decode(token, key, now) ==
    IF token.kind # "jwt" THEN [ok |-> FALSE, err |-> "Malformed", sub |-> NoSub]
    ELSE IF token.sig # Sign(key, token.sub, token.exp)
         THEN [ok |-> FALSE, err |-> "BadSignature", sub |-> NoSub]
    ELSE IF token.exp < now
         THEN [ok |-> FALSE, err |-> "Expired", sub |-> NoSub]
    ELSE [ok |-> TRUE, err |-> "", sub |-> token.sub]

---------------------------------------------------------------------------
(* Responses *)

NoToken   == [kind |-> "none", sub |-> NoSub, exp |-> 0, sig |-> Sign("", NoSub, 0)]
NoProfile == [id |-> 0, username |-> NoName, email |-> NoName, role |-> NoName,
              is_active |-> FALSE]

Response(status, detail, www) ==
    [status |-> status, detail |-> detail, www |-> www,
     access_token |-> NoToken, token_type |-> "", profile |-> NoProfile]

\* HTTPException(400, "Username already registered") and its email twin
UsernameTaken == Response(400, "Username already registered", "")
EmailTaken    == Response(400, "Email already registered", "")
\* an exception no handler catches (IntegrityError, ResponseValidationError)
ServerError   == Response(500, "Internal Server Error", "")
\* login's HTTPException
LoginFailed   == Response(401, "Incorrect username or password", "Bearer")
\* credentials_exception of get_current_user
credentials_exception == Response(401, "Could not validate credentials", "Bearer")
\* OAuth2PasswordBearer without an Authorization header
NotAuthenticated == Response(401, "Not authenticated", "Bearer")
\* get_current_active_user's HTTPException
InactiveUser  == Response(400, "Inactive user", "")

\* pydantic's conversion of the stored text to UserOut.is_active: bool
PydanticBoolOk(v) == v \in {"1", "0", "True", "False"}
PydanticBool(v)   == v \in {"1", "True"}

\* response_model=schemas.UserOut applied to a row
UserOut(row) ==
    IF ~PydanticBoolOk(row.is_active) THEN ServerError
    ELSE [Response(200, "", "") EXCEPT
            !.profile = [id |-> row.id, username |-> row.username,
                         email |-> row.email, role |-> row.role,
                         is_active |-> PydanticBool(row.is_active)]]

TokenOut(token) ==
    [Response(200, "", "") EXCEPT !.access_token = token, !.token_type = "bearer"]

---------------------------------------------------------------------------
(* Authenticator: utils.py 81-102.  The result is the row's index; NoRow   *)
(* stands for the function's False.                                        *)

authenticate_user(tbl, username, password) ==
    LET i == FirstByUsername(tbl, username)
    IN  IF i = NoRow THEN NoRow
        ELSE IF ~verify_password(password, tbl[i].hashed_password) THEN NoRow
        ELSE i

---------------------------------------------------------------------------
(* Identity resolver: utils.py 104-157 *)

\* Mutant: an unknown subject is answered 404 instead of credentials_exception
get_current_user_404(token, tbl, now) ==
    IF token.kind = "no header"
    THEN [row |-> NoRow, resp |-> NotAuthenticated, cause |-> "NoHeader", sub |-> NoSub]
    ELSE LET d == jwt_decode(token, SECRET_KEY, now)
         IN  IF ~d.ok
             THEN [row |-> NoRow, resp |-> credentials_exception, cause |-> d.err,
                   sub |-> NoSub]
             ELSE IF d.sub = NoSub
             THEN [row |-> NoRow, resp |-> credentials_exception, cause |-> "NoSubject",
                   sub |-> NoSub]
             ELSE IF FirstByUsername(tbl, d.sub) = NoRow
             THEN [row |-> NoRow, resp |-> Response(404, "User not found", ""),
                   cause |-> "NoUser", sub |-> d.sub]
             ELSE [row |-> FirstByUsername(tbl, d.sub), resp |-> Response(200, "", ""),
                   cause |-> "", sub |-> d.sub]

\* get_current_user: row is the user found (NoRow when the request is denied),
\* resp the HTTPException raised, cause which check raised it, sub the subject
\* decoded
get_current_user(token, tbl, now) ==
    IF token.kind = "no header"
    THEN [row |-> NoRow, resp |-> NotAuthenticated, cause |-> "NoHeader", sub |-> NoSub]
    ELSE LET d == jwt_decode(token, SECRET_KEY, now)
         IN  IF ~d.ok
             THEN [row |-> NoRow, resp |-> credentials_exception, cause |-> d.err,
                   sub |-> NoSub]
             ELSE IF d.sub = NoSub
             THEN [row |-> NoRow, resp |-> credentials_exception, cause |-> "NoSubject",
                   sub |-> NoSub]
             ELSE IF FirstByUsername(tbl, d.sub) = NoRow
             THEN [row |-> NoRow, resp |-> credentials_exception, cause |-> "NoUser",
                   sub |-> d.sub]
             ELSE [row |-> FirstByUsername(tbl, d.sub), resp |-> Response(200, "", ""),
                   cause |-> "", sub |-> d.sub]

\* Mutant: the flag is compared with the text 'True' the migration script
\* writes, which no row created by register holds
get_current_active_user_compares_text(token, tbl, now) ==
    LET cu == get_current_user(token, tbl, now)
    IN  IF cu.row = NoRow THEN cu
        ELSE IF tbl[cu.row].is_active # "True"
        THEN [row |-> NoRow, resp |-> InactiveUser, cause |-> "Inactive", sub |-> cu.sub]
        ELSE cu

get_current_active_user(token, tbl, now) ==
    LET cu == get_current_user(token, tbl, now)
    IN  IF cu.row = NoRow THEN cu
        ELSE IF ~Truthy(tbl[cu.row].is_active)
        THEN [row |-> NoRow, resp |-> InactiveUser, cause |-> "Inactive", sub |-> cu.sub]
        ELSE cu

---------------------------------------------------------------------------
(* Handlers of app/auth.py as functions of the store *)

NewUser(tbl, username, email, password, role, salt) ==
    [id |-> Len(tbl) + 1, username |-> username, email |-> email,
     hashed_password |-> get_password_hash(password, salt),
     role |-> role, is_active |-> DefaultIsActive]

\* register: [users, resp, hashed]
register(tbl, username, email, password, role, salt) ==
    IF FirstByUsername(tbl, username) # NoRow
    THEN [users |-> tbl, resp |-> UsernameTaken, hashed |-> FALSE]
    ELSE IF FirstByEmail(tbl, email) # NoRow
    THEN [users |-> tbl, resp |-> EmailTaken, hashed |-> FALSE]
    ELSE LET row == NewUser(tbl, username, email, password, role, salt)
         IN  IF ~UniqueOk(tbl, row)
             THEN [users |-> tbl, resp |-> ServerError, hashed |-> TRUE]
             ELSE [users |-> Append(tbl, row), resp |-> UserOut(row), hashed |-> TRUE]

\* Mutant: an unknown username is answered 404
login_leaky(tbl, username, password, now) ==
    LET i == authenticate_user(tbl, username, password)
    IN  IF FirstByUsername(tbl, username) = NoRow
        THEN Response(404, "User not found", "")
        ELSE IF i = NoRow THEN LoginFailed
        ELSE TokenOut(create_access_token(tbl[i].username,
                                          Delta(LoginExpireMinutes), now))

\* login: the response; a 200 carries the token
\* Mutant: login passes no expires_delta, the token gets the codec's default
login_default_lifetime(tbl, username, password, now) ==
    IF authenticate_user(tbl, username, password) = NoRow
    THEN LoginFailed
    ELSE TokenOut(create_access_token(username, NoDelta, now))

login(tbl, username, password, now) ==
    LET i == authenticate_user(tbl, username, password)
    IN  IF i = NoRow THEN LoginFailed
        ELSE TokenOut(create_access_token(tbl[i].username,
                                          Delta(LoginExpireMinutes), now))

\* GET /auth/me
read_users_me(token, tbl, now) ==
    LET cu == get_current_active_user(token, tbl, now)
    IN  IF cu.row = NoRow THEN cu.resp ELSE UserOut(tbl[cu.row])

\* The tokens handed out so far
Tokens(iss) == {r.tok : r \in iss}

Issuance(sub, expires_delta, now) ==
    [tok |-> create_access_token(sub, expires_delta, now), at |-> now,
     delta |-> expires_delta, sub |-> sub]

---------------------------------------------------------------------------
(* State machine *)

NoReq == [op |-> "none", username |-> NoName, email |-> NoName,
          password |-> NoName, token |-> NoToken, at |-> 0]

\* cause: the check that denied the request ("" when none did); sub: the
\* subject decoded; row: the user get_current_user returned; flag: the
\* is_active value get_current_active_user read from it
NoGuard == [cause |-> "none", sub |-> NoSub, row |-> NoRow, flag |-> ""]

\* A register request: its position in the handler, its body, its response,
\* and (ghost) whether a row with its username or its email existed when it
\* arrived
IdleReg == [pc |-> "idle", username |-> NoName, email |-> NoName,
            password |-> NoName, role |-> NoName, resp |-> Response(0, "", ""),
            dup |-> FALSE]

\* No request has reached a customers, tickets, logs or reports endpoint
NoArg == [id |-> 0, payload |-> <<>>]

\* No request is inside the identity resolver
\* pc: the stage reached; token: the Authorization header; at: the time
\* jwt.decode read; sub: the subject decoded; row: the User object the
\* query loaded; resp: the HTTPException raised; passed (ghost): the checks
\* passed so far
IdleGd == [pc |-> "Idle", token |-> NoHeader, at |-> 0, sub |-> NoSub,
           row |-> <<>>, resp |-> Response(0, "", ""), passed |-> <<>>]

\* Columns of a tickets and of a users table created before the models
\* gained assigned_agent_id and is_active
TicketColumns == {"id", "title", "description", "priority", "status",
                  "created_at", "customer_id"}
UserColumns   == {"id", "username", "email", "hashed_password", "role"}

\* crm.db after create_all of the current models, never migrated.  A table
\* is its set of columns ({} when the table does not exist); agent and
\* active hold, row by row, the assigned_agent_id of tickets and the
\* is_active of users; runs, attempted and outcome (ghost) describe the runs
\* of migrate_database: how many, the ALTER TABLE statements the last one
\* executed, and how it ended
CreatedSchema ==
    [file |-> TRUE,
     tickets |-> TicketColumns \cup {"assigned_agent_id"}, agent |-> <<>>,
     users |-> UserColumns \cup {"is_active"}, active |-> <<>>,
     runs |-> 0, attempted |-> <<>>, outcome |-> "none"]

\* Base.metadata.create_all on a fresh database: the tables exist, empty
InitMore ==
    /\ customers = <<>>
    /\ tickets = <<>>
    /\ logs = <<>>
    /\ body = <<>>
    /\ arg = NoArg
    /\ gd = IdleGd
    /\ mig = CreatedSchema

Init ==
    /\ InitMore
    /\ users = <<>>
    /\ plain = <<>>
    /\ saltCtr = 0
    /\ clock = 0
    /\ issued = {}
    /\ req = NoReq
    /\ resp = Response(0, "", "")
    /\ guard = NoGuard
    /\ reg = [r \in 1..NumReq |-> IdleReg]

\* POST /auth/register, served without interleaving
Register(u, e, p, role) ==
    LET out == register(users, u, e, p, role, saltCtr + 1)
    IN  /\ Len(out.users) <= MaxUsers
        /\ users' = out.users
        /\ plain' = IF Len(out.users) > Len(users) THEN Append(plain, p) ELSE plain
        /\ saltCtr' = IF out.hashed THEN saltCtr + 1 ELSE saltCtr
        /\ req' = [NoReq EXCEPT !.op = "register", !.username = u, !.email = e,
                                !.password = p, !.at = clock]
        /\ resp' = out.resp
        /\ guard' = NoGuard
        /\ UNCHANGED <<clock, issued, reg, more>>

\* Mutant: a successful login stores a fresh digest of the password
LoginRehash(u, p) ==
    LET out == login(users, u, p, clock)
        i == authenticate_user(users, u, p)
        new == IF out.status = 200
               THEN {Issuance(out.access_token.sub, Delta(LoginExpireMinutes), clock)}
               ELSE {}
    IN  /\ Cardinality(issued \cup new) <= MaxTokens
        /\ saltCtr < MaxHash
        /\ req' = [NoReq EXCEPT !.op = "login", !.username = u, !.password = p,
                                !.at = clock]
        /\ resp' = out
        /\ guard' = NoGuard
        /\ issued' = issued \cup new
        /\ users' = IF i = NoRow THEN users
                    ELSE [users EXCEPT ![i].hashed_password =
                                          get_password_hash(p, saltCtr + 1)]
        /\ saltCtr' = IF i = NoRow THEN saltCtr ELSE saltCtr + 1
        /\ UNCHANGED <<plain, clock, reg, more>>

\* POST /auth/login
Login(u, p) ==
    LET out == login(users, u, p, clock)
        new == IF out.status = 200
               THEN {Issuance(out.access_token.sub, Delta(LoginExpireMinutes), clock)}
               ELSE {}
    IN  /\ Cardinality(issued \cup new) <= MaxTokens
        /\ req' = [NoReq EXCEPT !.op = "login", !.username = u, !.password = p,
                                !.at = clock]
        /\ resp' = out
        /\ guard' = NoGuard
        /\ issued' = issued \cup new
        /\ UNCHANGED <<users, plain, saltCtr, clock, reg, more>>

\* GET /auth/me with the given Authorization header
Me(token) ==
    /\ req' = [NoReq EXCEPT !.op = "me", !.token = token, !.at = clock]
    /\ resp' = read_users_me(token, users, clock)
    /\ guard' = LET cu == get_current_user(token, users, clock)
                    au == get_current_active_user(token, users, clock)
                IN  [cause |-> au.cause, sub |-> au.sub, row |-> cu.row,
                     flag |-> IF cu.row = NoRow THEN "" ELSE users[cu.row].is_active]
    /\ UNCHANGED <<users, plain, saltCtr, clock, issued, reg, more>>

\* An administrator rewrites users.is_active of row i (no endpoint does)
SetActive(i, v) ==
    /\ i \in 1..Len(users)
    /\ users[i].is_active # v
    /\ users' = [users EXCEPT ![i].is_active = v]
    /\ UNCHANGED <<plain, saltCtr, clock, issued, req, resp, guard, reg, more>>

\* Time passes: to an issued token's expiry, to the minute after it, or by
\* the coarse step
Tick ==
    /\ \E t \in ({x.exp : x \in Tokens(issued)} \cup {x.exp + 1 : x \in Tokens(issued)}
                 \cup {clock + TickMinutes}) :
          /\ t > clock
          /\ t <= MaxClock
          /\ clock' = t
    /\ UNCHANGED <<users, plain, saltCtr, issued, req, resp, guard, reg, more>>

EmailOf(u) == IF u = "alice" THEN "alice@example.com" ELSE "bob@example.com"

Next ==
    \/ \E u \in Usernames, p \in Passwords, role \in Roles :
          Register(u, EmailOf(u), p, role)
    \/ \E u \in Usernames, p \in Passwords : Login(u, p)
    \/ \E token \in Tokens(issued) \cup {NoHeader, Garbage} : Me(token)
    \/ \E i \in 1..MaxUsers, v \in FlagValues : SetActive(i, v)
    \/ Tick

Spec == Init /\ [][Next]_vars

---------------------------------------------------------------------------
(* Token codec under attack: create_access_token called with any subject   *)
(* and any ttl, and a client that presents issued, altered and self-signed *)
(* tokens.  The store holds alice, registered through register.            *)

Subjects == Usernames \cup {NoSub}          \* data = {"sub": s}, or data = {}
Deltas   == {NoDelta, Delta(0 - 1), Delta(0), Delta(1)}

\* create_access_token(data, expires_delta) called at the current time
IssueToken(sub, delta) ==
    /\ Cardinality(issued \cup {Issuance(sub, delta, clock)}) <= MaxDirect
    /\ issued' = issued \cup {Issuance(sub, delta, clock)}
    /\ req' = [NoReq EXCEPT !.op = "issue", !.username = sub, !.at = clock]
    /\ resp' = TokenOut(create_access_token(sub, delta, clock))
    /\ guard' = NoGuard
    /\ UNCHANGED <<users, plain, saltCtr, clock, reg, more>>

\* Issued tokens with the subject rewritten, or the expiry moved by up to
\* MaxForge minutes, signature kept
Tampered(iss) ==
    (  {[t EXCEPT !.sub = s] : t \in Tokens(iss), s \in Subjects}
    \cup {[t EXCEPT !.exp = t.exp + d] : t \in Tokens(iss), d \in 1..MaxForge} )
    \ Tokens(iss)

\* The same payloads signed with a key that is not the server's
ReSigned(iss) ==
    {[t EXCEPT !.sig = Sign(k, t.sub, t.exp)] :
        t \in Tokens(iss) \cup Tampered(iss), k \in OtherKeys}

Forgeries(iss) == ReSigned(iss) \cup Tampered(iss)

InitToken ==
    /\ InitMore
    /\ users = register(<<>>, "alice", EmailOf("alice"), "pw123", "agent", 1).users
    /\ plain = <<"pw123">>
    /\ saltCtr = 1
    /\ clock = 0
    /\ issued = {}
    /\ req = NoReq
    /\ resp = Response(0, "", "")
    /\ guard = NoGuard
    /\ reg = [r \in 1..NumReq |-> IdleReg]

NextToken ==
    \/ \E sub \in Subjects, delta \in Deltas : IssueToken(sub, delta)
    \/ \E token \in Tokens(issued) \cup Forgeries(issued) \cup {NoHeader, Garbage} :
          Me(token)
    \/ Tick

SpecToken == InitToken /\ [][NextToken]_vars

---------------------------------------------------------------------------
(* POST /auth/register, interleaved: the handlers run in a thread pool and *)
(* each query and the final commit is a separate database round trip.      *)

\* The password plays no part in the checks of register
RegPasswords == {"pw123"}

InFlight == {r \in 1..NumReq : reg[r].pc \notin {"idle", "done"}}

\* the request arrives and is served by the first free worker
RegStart(r, u, e, p, role) ==
    /\ reg[r].pc = "idle"
    /\ \A q \in 1..(r - 1) : reg[q].pc # "idle"
    /\ saltCtr + Cardinality(InFlight) < MaxHash
    /\ reg' = [reg EXCEPT ![r] =
                 [pc |-> "check_username", username |-> u, email |-> e,
                  password |-> p, role |-> role, resp |-> Response(0, "", ""),
                  dup |-> (FirstByUsername(users, u) # NoRow
                           \/ FirstByEmail(users, e) # NoRow)]]
    /\ UNCHANGED <<users, plain, saltCtr, clock, issued, req, resp, guard, more>>

\* auth.py 38-40
RegCheckUsername(r) ==
    /\ reg[r].pc = "check_username"
    /\ reg' = IF FirstByUsername(users, reg[r].username) # NoRow
              THEN [reg EXCEPT ![r].pc = "done", ![r].resp = UsernameTaken]
              ELSE [reg EXCEPT ![r].pc = "check_email"]
    /\ UNCHANGED <<users, plain, saltCtr, clock, issued, req, resp, guard, more>>

\* Mutant: the handler does not look the email up
RegCheckEmailSkipped(r) ==
    /\ reg[r].pc = "check_email"
    /\ reg' = [reg EXCEPT ![r].pc = "commit"]
    /\ UNCHANGED <<users, plain, saltCtr, clock, issued, req, resp, guard, more>>

\* auth.py 43-45
RegCheckEmail(r) ==
    /\ reg[r].pc = "check_email"
    /\ reg' = IF FirstByEmail(users, reg[r].email) # NoRow
              THEN [reg EXCEPT ![r].pc = "done", ![r].resp = EmailTaken]
              ELSE [reg EXCEPT ![r].pc = "commit"]
    /\ UNCHANGED <<users, plain, saltCtr, clock, issued, req, resp, guard, more>>

\* auth.py 48-60: hash, add, commit (the unique indexes reject a duplicate
\* with IntegrityError, which nothing catches), refresh, return
RegCommit(r) ==
    LET row == NewUser(users, reg[r].username, reg[r].email, reg[r].password,
                       reg[r].role, saltCtr + 1)
    IN  /\ reg[r].pc = "commit"
        /\ saltCtr' = saltCtr + 1
        /\ IF UniqueOk(users, row)
           THEN /\ users' = Append(users, row)
                /\ plain' = Append(plain, reg[r].password)
                /\ reg' = [reg EXCEPT ![r].pc = "done", ![r].resp = UserOut(row)]
           ELSE /\ UNCHANGED <<users, plain>>
                /\ reg' = [reg EXCEPT ![r].pc = "done", ![r].resp = ServerError]
        /\ UNCHANGED <<clock, issued, req, resp, guard, more>>

\* the response is sent; the worker serves the next request
RegFinish(r) ==
    /\ reg[r].pc = "done"
    /\ reg' = [reg EXCEPT ![r] = IdleReg]
    /\ UNCHANGED <<users, plain, saltCtr, clock, issued, req, resp, guard, more>>

NextReg ==
    \/ \E r \in 1..NumReq, u \in Usernames, e \in Emails, p \in RegPasswords,
          role \in Roles : RegStart(r, u, e, p, role)
    \/ \E r \in 1..NumReq : RegCheckUsername(r)
    \/ \E r \in 1..NumReq : RegCheckEmail(r)
    \/ \E r \in 1..NumReq : RegCommit(r)
    \/ \E r \in 1..NumReq : RegFinish(r)

SpecReg == Init /\ [][NextReg]_vars

---------------------------------------------------------------------------
(* The identity resolver stage by stage: Depends(oauth2_scheme) and the     *)
(* body of get_current_user, then get_current_active_user, for one request *)
(* at a time, while the clock advances and users.is_active is rewritten.    *)

\* A request arrives with the given Authorization header
GuardPresent(token) ==
    /\ gd.pc \in {"Idle", "Authorized", "Denied"}
    /\ gd' = [IdleGd EXCEPT !.pc = "Presented", !.token = token]
    /\ UNCHANGED <<users, plain, saltCtr, clock, issued, req, resp, guard, reg,
                   customers, tickets, logs, body, arg, mig>>

\* oauth2_scheme, jwt.decode and the subject check: utils.py 28, 124-131
GuardDecode ==
    /\ gd.pc = "Presented"
    /\ LET d == jwt_decode(gd.token, SECRET_KEY, clock)
       IN  gd' = IF gd.token.kind = "no header"
                 THEN [gd EXCEPT !.pc = "Denied", !.resp = NotAuthenticated]
                 ELSE IF ~d.ok \/ d.sub = NoSub
                 THEN [gd EXCEPT !.pc = "Denied", !.at = clock,
                                 !.resp = credentials_exception]
                 ELSE [gd EXCEPT !.pc = "Decoded", !.at = clock, !.sub = d.sub,
                                 !.passed = Append(@, "decode")]
    /\ UNCHANGED <<users, plain, saltCtr, clock, issued, req, resp, guard, reg,
                   customers, tickets, logs, body, arg, mig>>

\* the query by username: utils.py 134-137
GuardLookup ==
    /\ gd.pc = "Decoded"
    /\ LET row == FirstByUsername(users, gd.sub)
       IN  gd' = IF row = NoRow
                 THEN [gd EXCEPT !.pc = "Denied", !.resp = credentials_exception]
                 ELSE [gd EXCEPT !.pc = "LookedUp", !.row = <<users[row]>>,
                                 !.passed = Append(@, "lookup")]
    /\ UNCHANGED <<users, plain, saltCtr, clock, issued, req, resp, guard, reg,
                   customers, tickets, logs, body, arg, mig>>

\* Mutant: the endpoint depends on get_current_user, the flag is not read
GuardActiveUnchecked ==
    /\ gd.pc = "LookedUp"
    /\ gd' = [gd EXCEPT !.pc = "Authorized"]
    /\ UNCHANGED <<users, plain, saltCtr, clock, issued, req, resp, guard, reg,
                   customers, tickets, logs, body, arg, mig>>

\* get_current_active_user on the object loaded: utils.py 154-157
GuardActive ==
    /\ gd.pc = "LookedUp"
    /\ gd' = IF ~Truthy(gd.row[1].is_active)
             THEN [gd EXCEPT !.pc = "Denied", !.resp = InactiveUser]
             ELSE [gd EXCEPT !.pc = "Authorized", !.passed = Append(@, "active")]
    /\ UNCHANGED <<users, plain, saltCtr, clock, issued, req, resp, guard, reg,
                   customers, tickets, logs, body, arg, mig>>

NextGuard ==
    \/ \E sub \in Subjects, delta \in Deltas : IssueToken(sub, delta)
    \/ \E token \in Tokens(issued) \cup ReSigned(issued) \cup {NoHeader, Garbage} :
          GuardPresent(token)
    \/ GuardDecode
    \/ GuardLookup
    \/ GuardActive
    \/ \E i \in 1..MaxUsers, v \in FlagValues : SetActive(i, v)
    \/ Tick

SpecGuard == InitToken /\ [][NextGuard]_vars

---------------------------------------------------------------------------
(* Customers, tickets, logs and reports: app/routers/*.py over the tables   *)
(* of app/models.py.  A handler is a function of the database and of the    *)
(* result of Depends(get_current_active_user); it returns the database      *)
(* after its commit, the response and the records the response carries.     *)

None  == "NULL"              \* Python None / SQL NULL in a text column
Unset == "UNSET"             \* a field the request body does not contain

\* Optional[int]: None, or an integer
NoId  == {}
Id(n) == {n}

\* Python truthiness of an Optional[int]: None and 0 are falsy
IdTruthy(v) == v # NoId /\ v # Id(0)

\* db.query(Model).filter(Model.id == id).first(): index of the row or NoRow
RowOf(tbl, id) ==
    LET hits == {i \in 1..Len(tbl) : tbl[i].id = id}
    IN  IF hits = {} THEN NoRow ELSE CHOOSE i \in hits : \A j \in hits : i <= j

\* INTEGER PRIMARY KEY of SQLite: one more than the largest id in the table
NextId(tbl) ==
    IF tbl = <<>> THEN 1
    ELSE 1 + (CHOOSE m \in {tbl[i].id : i \in 1..Len(tbl)} :
                 \A i \in 1..Len(tbl) : tbl[i].id <= m)

\* db.delete(row)
Without(tbl, i) == SubSeq(tbl, 1, i - 1) \o SubSeq(tbl, i + 1, Len(tbl))

Reply(db, response, records) == [db |-> db, resp |-> response, body |-> records]

Ok == Response(200, "", "")
NotFound(detail) == Response(404, detail, "")

\* Depends(get_current_active_user): the handler body runs only when the
\* resolver returned a user
Gate(au, db, out) == IF au.row = NoRow THEN Reply(db, au.resp, <<>>) ELSE out

\* customers: name NOT NULL, email UNIQUE (NULLs do not collide)
CustomerConstraintsOk(tbl, row) ==
    /\ row.name # None
    /\ \A i \in 1..Len(tbl) :
          (tbl[i].id # row.id /\ row.email # None) => tbl[i].email # row.email

\* response_model=CustomerOut: name and email are str, the rest Optional
CustomerOutOk(row) == row.name # None /\ row.email # None

\* POST /customers/
create_customer(db, au, customer) ==
    Gate(au, db,
         LET row == [id |-> NextId(db.customers), name |-> customer.name,
                     email |-> customer.email, phone |-> customer.phone,
                     company |-> customer.company, notes |-> customer.notes]
         IN  IF ~CustomerConstraintsOk(db.customers, row)
             THEN Reply(db, ServerError, <<>>)
             ELSE Reply([db EXCEPT !.customers = Append(@, row)], Ok, <<row>>))

\* GET /customers/
get_customers(db, au) ==
    Gate(au, db,
         IF \E i \in 1..Len(db.customers) : ~CustomerOutOk(db.customers[i])
         THEN Reply(db, ServerError, <<>>)
         ELSE Reply(db, Ok, db.customers))

\* Mutant: dict() without exclude_unset, absent fields are written as None
PatchedAll(row, customer_update) ==
    [f \in DOMAIN row |->
        IF f \in DOMAIN customer_update
        THEN (IF customer_update[f] = Unset THEN None ELSE customer_update[f])
        ELSE row[f]]

\* setattr(customer, field, value) for the fields of dict(exclude_unset=True)
Patched(row, customer_update) ==
    [f \in DOMAIN row |->
        IF f \in DOMAIN customer_update /\ customer_update[f] # Unset
        THEN customer_update[f] ELSE row[f]]

\* PUT /customers/{customer_id}
update_customer(db, au, customer_id, customer_update) ==
    Gate(au, db,
         LET i == RowOf(db.customers, customer_id)
         IN  IF i = NoRow THEN Reply(db, NotFound("Customer not found"), <<>>)
             ELSE LET row == Patched(db.customers[i], customer_update)
                  IN  IF ~CustomerConstraintsOk(db.customers, row)
                      THEN Reply(db, ServerError, <<>>)
                      ELSE Reply([db EXCEPT !.customers[i] = row],
                                 IF CustomerOutOk(row) THEN Ok ELSE ServerError,
                                 IF CustomerOutOk(row) THEN <<row>> ELSE <<>>))

\* db.delete(parent) with a relationship that has no delete cascade: the
\* ORM sets the foreign key of the children to NULL
Orphaned(tbl, fk, id) ==
    [i \in 1..Len(tbl) |->
        IF tbl[i][fk] = Id(id) THEN [tbl[i] EXCEPT ![fk] = NoId] ELSE tbl[i]]

\* DELETE /customers/{customer_id}
delete_customer(db, au, customer_id) ==
    Gate(au, db,
         LET i == RowOf(db.customers, customer_id)
         IN  IF i = NoRow THEN Reply(db, NotFound("Customer not found"), <<>>)
             ELSE Reply([db EXCEPT !.customers = Without(@, i),
                                   !.tickets = Orphaned(@, "customer_id", customer_id)],
                        Ok, <<[message |-> "Customer deleted successfully"]>>))

\* GET /customers/{customer_id}
get_customer(db, au, customer_id) ==
    Gate(au, db,
         LET i == RowOf(db.customers, customer_id)
         IN  IF i = NoRow THEN Reply(db, NotFound("Customer not found"), <<>>)
             ELSE IF ~CustomerOutOk(db.customers[i])
             THEN Reply(db, ServerError, <<>>)
             ELSE Reply(db, Ok, <<db.customers[i]>>))

\* response_model=TicketOut: the fields of the schema, customer_id is not one
TicketOut(row) ==
    [id |-> row.id, title |-> row.title, description |-> row.description,
     priority |-> row.priority, status |-> row.status,
     created_at |-> row.created_at, assigned_agent_id |-> row.assigned_agent_id]

\* db.query(models.User).filter(models.User.id == assigned_agent_id).first()
AgentExists(tbl, assigned_agent_id) ==
    \E i \in 1..Len(tbl) : Id(tbl[i].id) = assigned_agent_id

\* `if ticket.assigned_agent_id:`
AgentChecked(v) == IdTruthy(v)

\* GET /tickets/ with the default skip and limit
read_tickets(db, au) ==
    Gate(au, db,
         Reply(db, Ok, [i \in 1..Len(db.tickets) |-> TicketOut(db.tickets[i])]))

\* POST /tickets/
create_ticket(db, au, ticket, now) ==
    Gate(au, db,
         IF RowOf(db.customers, ticket.customer_id) = NoRow
         THEN Reply(db, NotFound("Customer not found"), <<>>)
         ELSE IF /\ AgentChecked(ticket.assigned_agent_id)
                 /\ ~AgentExists(db.users, ticket.assigned_agent_id)
         THEN Reply(db, NotFound("Assigned agent not found"), <<>>)
         ELSE LET row == [id |-> NextId(db.tickets), title |-> ticket.title,
                          description |-> ticket.description,
                          priority |-> ticket.priority, status |-> ticket.status,
                          created_at |-> now,
                          customer_id |-> Id(ticket.customer_id),
                          assigned_agent_id |-> ticket.assigned_agent_id]
              IN  Reply([db EXCEPT !.tickets = Append(@, row)], Ok,
                        <<TicketOut(row)>>))

\* GET /tickets/{ticket_id}
read_ticket(db, au, ticket_id) ==
    Gate(au, db,
         LET i == RowOf(db.tickets, ticket_id)
         IN  IF i = NoRow THEN Reply(db, NotFound("Ticket not found"), <<>>)
             ELSE Reply(db, Ok, <<TicketOut(db.tickets[i])>>))

\* PUT /tickets/{ticket_id}
update_ticket(db, au, ticket_id, ticket_update) ==
    Gate(au, db,
         LET i == RowOf(db.tickets, ticket_id)
         IN  IF i = NoRow THEN Reply(db, NotFound("Ticket not found"), <<>>)
             ELSE IF RowOf(db.customers, ticket_update.customer_id) = NoRow
             THEN Reply(db, NotFound("Customer not found"), <<>>)
             ELSE IF /\ AgentChecked(ticket_update.assigned_agent_id)
                     /\ ~AgentExists(db.users, ticket_update.assigned_agent_id)
             THEN Reply(db, NotFound("Assigned agent not found"), <<>>)
             ELSE LET row == [db.tickets[i] EXCEPT
                                 !.title = ticket_update.title,
                                 !.description = ticket_update.description,
                                 !.priority = ticket_update.priority,
                                 !.status = ticket_update.status,
                                 !.customer_id = Id(ticket_update.customer_id),
                                 !.assigned_agent_id = ticket_update.assigned_agent_id]
                  IN  Reply([db EXCEPT !.tickets[i] = row], Ok, <<TicketOut(row)>>))

\* Mutant: the endpoint is declared without Depends(get_current_active_user)
delete_ticket_ungated(db, au, ticket_id) ==
    LET i == RowOf(db.tickets, ticket_id)
    IN  IF i = NoRow THEN Reply(db, NotFound("Ticket not found"), <<>>)
        ELSE Reply([db EXCEPT !.tickets = Without(@, i),
                              !.logs = Orphaned(@, "ticket_id", ticket_id)],
                   Ok, <<[detail |-> "Ticket deleted successfully"]>>)

\* DELETE /tickets/{ticket_id}
delete_ticket(db, au, ticket_id) ==
    Gate(au, db,
         LET i == RowOf(db.tickets, ticket_id)
         IN  IF i = NoRow THEN Reply(db, NotFound("Ticket not found"), <<>>)
             ELSE Reply([db EXCEPT !.tickets = Without(@, i),
                                   !.logs = Orphaned(@, "ticket_id", ticket_id)],
                        Ok, <<[detail |-> "Ticket deleted successfully"]>>))

\* response_model=LogOut: the fields of the schema, ticket_id is not one
LogOut(row) ==
    [id |-> row.id, type |-> row.type, content |-> row.content,
     created_at |-> row.created_at]

\* GET /logs/ with the default skip and limit
read_logs(db, au) ==
    Gate(au, db, Reply(db, Ok, [i \in 1..Len(db.logs) |-> LogOut(db.logs[i])]))

\* POST /logs/
create_log(db, au, log, now) ==
    Gate(au, db,
         IF RowOf(db.tickets, log.ticket_id) = NoRow
         THEN Reply(db, NotFound("Ticket not found"), <<>>)
         ELSE LET row == [id |-> NextId(db.logs), type |-> log.type,
                          content |-> log.content, created_at |-> now,
                          ticket_id |-> Id(log.ticket_id)]
              IN  Reply([db EXCEPT !.logs = Append(@, row)], Ok, <<LogOut(row)>>))

\* GET /logs/{log_id}
read_log(db, au, log_id) ==
    Gate(au, db,
         LET i == RowOf(db.logs, log_id)
         IN  IF i = NoRow THEN Reply(db, NotFound("Log not found"), <<>>)
             ELSE Reply(db, Ok, <<LogOut(db.logs[i])>>))

\* PUT /logs/{log_id}
update_log(db, au, log_id, log_update) ==
    Gate(au, db,
         LET i == RowOf(db.logs, log_id)
         IN  IF i = NoRow THEN Reply(db, NotFound("Log not found"), <<>>)
             ELSE IF RowOf(db.tickets, log_update.ticket_id) = NoRow
             THEN Reply(db, NotFound("Ticket not found"), <<>>)
             ELSE LET row == [db.logs[i] EXCEPT !.type = log_update.type,
                                               !.content = log_update.content,
                                               !.ticket_id = Id(log_update.ticket_id)]
                  IN  Reply([db EXCEPT !.logs[i] = row], Ok, <<LogOut(row)>>))

\* DELETE /logs/{log_id}
delete_log(db, au, log_id) ==
    Gate(au, db,
         LET i == RowOf(db.logs, log_id)
         IN  IF i = NoRow THEN Reply(db, NotFound("Log not found"), <<>>)
             ELSE Reply([db EXCEPT !.logs = Without(@, i)], Ok,
                        <<[detail |-> "Log deleted successfully"]>>))

\* db.query(models.Ticket).filter(models.Ticket.status == s).count()
CountStatus(tbl, s) == Cardinality({i \in 1..Len(tbl) : tbl[i].status = s})

\* GET /reports/tickets-summary
get_tickets_summary(db, au) ==
    Gate(au, db,
         LET open_count == CountStatus(db.tickets, "open")
             in_progress_count == CountStatus(db.tickets, "in-progress")
             resolved_count == CountStatus(db.tickets, "resolved")
         IN  Reply(db, Ok,
                   <<[total_tickets |-> open_count + in_progress_count + resolved_count,
                      open |-> open_count, in_progress |-> in_progress_count,
                      resolved |-> resolved_count]>>))

\* GET /reports/agent-workload: users LEFT JOIN tickets, counted per user
get_agent_workload(db, au) ==
    Gate(au, db,
         Reply(db, Ok,
               <<[agent_workload |->
                    [i \in 1..Len(db.users) |->
                        [username |-> db.users[i].username,
                         count |-> Cardinality({j \in 1..Len(db.tickets) :
                             db.tickets[j].assigned_agent_id = Id(db.users[i].id)})]]]>>))

\* GET /reports/response-times: a constant
get_response_times(db, au) ==
    Gate(au, db, Reply(db, Ok, <<[average_response_time_hours |-> "24.5"]>>))

---------------------------------------------------------------------------
(* The endpoints as actions *)

Db == [users |-> users, customers |-> customers, tickets |-> tickets,
       logs |-> logs]

\* Depends(get_current_active_user) for the request being served
Au(token) == get_current_active_user(token, users, clock)

\* what the resolver did with the token (ghost, as for GET /auth/me)
GuardOf(token) ==
    LET cu == get_current_user(token, users, clock)
    IN  [cause |-> Au(token).cause, sub |-> Au(token).sub, row |-> cu.row,
         flag |-> IF cu.row = NoRow THEN "" ELSE users[cu.row].is_active]

IdsWithin(tbl) == \A i \in 1..Len(tbl) : tbl[i].id <= MaxId

\* One request served from arrival to response
Serve(op, token, id, payload, out) ==
    /\ Len(out.db.customers) <= MaxCustomers /\ IdsWithin(out.db.customers)
    /\ Len(out.db.tickets) <= MaxTickets /\ IdsWithin(out.db.tickets)
    /\ Len(out.db.logs) <= MaxLogs /\ IdsWithin(out.db.logs)
    /\ req' = [NoReq EXCEPT !.op = op, !.token = token, !.at = clock]
    /\ arg' = [id |-> id, payload |-> payload]
    /\ guard' = GuardOf(token)
    /\ customers' = out.db.customers
    /\ tickets' = out.db.tickets
    /\ logs' = out.db.logs
    /\ resp' = out.resp
    /\ body' = out.body
    /\ UNCHANGED <<users, plain, saltCtr, clock, issued, reg, gd, mig>>

CreateCustomer(token, customer) ==
    Serve("create_customer", token, 0, customer,
          create_customer(Db, Au(token), customer))

GetCustomers(token) ==
    Serve("get_customers", token, 0, <<>>, get_customers(Db, Au(token)))

GetCustomer(token, customer_id) ==
    Serve("get_customer", token, customer_id, <<>>,
          get_customer(Db, Au(token), customer_id))

UpdateCustomer(token, customer_id, customer_update) ==
    Serve("update_customer", token, customer_id, customer_update,
          update_customer(Db, Au(token), customer_id, customer_update))

DeleteCustomer(token, customer_id) ==
    Serve("delete_customer", token, customer_id, <<>>,
          delete_customer(Db, Au(token), customer_id))

ReadTickets(token) ==
    Serve("read_tickets", token, 0, <<>>, read_tickets(Db, Au(token)))

CreateTicket(token, ticket) ==
    Serve("create_ticket", token, 0, ticket,
          create_ticket(Db, Au(token), ticket, clock))

ReadTicket(token, ticket_id) ==
    Serve("read_ticket", token, ticket_id, <<>>,
          read_ticket(Db, Au(token), ticket_id))

UpdateTicket(token, ticket_id, ticket_update) ==
    Serve("update_ticket", token, ticket_id, ticket_update,
          update_ticket(Db, Au(token), ticket_id, ticket_update))

DeleteTicket(token, ticket_id) ==
    Serve("delete_ticket", token, ticket_id, <<>>,
          delete_ticket(Db, Au(token), ticket_id))

ReadLogs(token) ==
    Serve("read_logs", token, 0, <<>>, read_logs(Db, Au(token)))

CreateLog(token, log) ==
    Serve("create_log", token, 0, log, create_log(Db, Au(token), log, clock))

ReadLog(token, log_id) ==
    Serve("read_log", token, log_id, <<>>, read_log(Db, Au(token), log_id))

UpdateLog(token, log_id, log_update) ==
    Serve("update_log", token, log_id, log_update,
          update_log(Db, Au(token), log_id, log_update))

DeleteLog(token, log_id) ==
    Serve("delete_log", token, log_id, <<>>,
          delete_log(Db, Au(token), log_id))

TicketsSummary(token) ==
    Serve("get_tickets_summary", token, 0, <<>>,
          get_tickets_summary(Db, Au(token)))

AgentWorkload(token) ==
    Serve("get_agent_workload", token, 0, <<>>,
          get_agent_workload(Db, Au(token)))

ResponseTimes(token) ==
    Serve("get_response_times", token, 0, <<>>,
          get_response_times(Db, Au(token)))

\* The requests the routers of customers, tickets, logs and reports serve
ProtectedOps ==
    {"create_customer", "get_customers", "get_customer", "update_customer",
     "delete_customer", "read_tickets", "create_ticket", "read_ticket",
     "update_ticket", "delete_ticket", "read_logs", "create_log", "read_log",
     "update_log", "delete_log", "get_tickets_summary", "get_agent_workload",
     "get_response_times"}

\* The payloads of test_api.py
TestCustomer ==
    [name |-> "Test Customer", email |-> "customer@example.com",
     phone |-> "1234567890", company |-> "Test Co", notes |-> "Test notes"]

TestTicket(customer_id, assigned_agent_id, status) ==
    [title |-> "Test Ticket", description |-> "Test description",
     priority |-> "high", status |-> status, customer_id |-> customer_id,
     assigned_agent_id |-> assigned_agent_id]

TestLog(ticket_id) ==
    [type |-> "call", content |-> "Test log content", ticket_id |-> ticket_id]

\* The store after test_register and test_login: alice is registered and
\* holds the token login returned
InitCrm ==
    /\ InitMore
    /\ users = register(<<>>, "alice", EmailOf("alice"), "pw123", "agent", 1).users
    /\ plain = <<"pw123">>
    /\ saltCtr = 1
    /\ clock = 0
    /\ issued = {Issuance("alice", Delta(LoginExpireMinutes), 0)}
    /\ req = NoReq
    /\ resp = Response(0, "", "")
    /\ guard = NoGuard
    /\ reg = [r \in 1..NumReq |-> IdleReg]

---------------------------------------------------------------------------
(* Every endpoint behind the resolver: each handler of the four routers and *)
(* of /auth is called with the token login issued, with no header and with  *)
(* an unparsable token.                                                     *)

GateTokens == Tokens(issued) \cup {NoHeader, Garbage}

RenameOnly ==
    [name |-> "Renamed", email |-> Unset, phone |-> Unset, company |-> Unset,
     notes |-> Unset]

NextGate ==
    \/ \E token \in GateTokens : CreateCustomer(token, TestCustomer)
    \/ \E token \in GateTokens : GetCustomers(token)
    \/ \E token \in GateTokens : GetCustomer(token, 1)
    \/ \E token \in GateTokens : UpdateCustomer(token, 1, RenameOnly)
    \/ \E token \in GateTokens : DeleteCustomer(token, 1)
    \/ \E token \in GateTokens : ReadTickets(token)
    \/ \E token \in GateTokens : CreateTicket(token, TestTicket(1, NoId, "open"))
    \/ \E token \in GateTokens : ReadTicket(token, 1)
    \/ \E token \in GateTokens :
          UpdateTicket(token, 1, TestTicket(1, NoId, "resolved"))
    \/ \E token \in GateTokens : DeleteTicket(token, 1)
    \/ \E token \in GateTokens : ReadLogs(token)
    \/ \E token \in GateTokens : CreateLog(token, TestLog(1))
    \/ \E token \in GateTokens : ReadLog(token, 1)
    \/ \E token \in GateTokens : UpdateLog(token, 1, TestLog(1))
    \/ \E token \in GateTokens : DeleteLog(token, 1)
    \/ \E token \in GateTokens : TicketsSummary(token)
    \/ \E token \in GateTokens : AgentWorkload(token)
    \/ \E token \in GateTokens : ResponseTimes(token)
    \/ \E token \in GateTokens : Me(token)
    \/ \E p \in Passwords : Login("alice", p)

SpecGate == InitCrm /\ [][NextGate]_vars

---------------------------------------------------------------------------
(* The customers router called by an authorized caller                      *)

OtherCustomer ==
    [name |-> "Other Customer", email |-> "other@example.com",
     phone |-> None, company |-> "Test Co", notes |-> "Test notes"]

CustomerPayloads == {TestCustomer, OtherCustomer}

\* CustomerUpdate bodies: a field is absent, null or a string
NoPatch ==
    [name |-> Unset, email |-> Unset, phone |-> Unset, company |-> Unset,
     notes |-> Unset]

CustomerPatches ==
    { [NoPatch EXCEPT !.name = "Renamed", !.phone = None],
      [NoPatch EXCEPT !.email = "other@example.com"],
      [NoPatch EXCEPT !.email = None],
      [NoPatch EXCEPT !.name = None] }

NextCust ==
    \/ \E token \in Tokens(issued), customer \in CustomerPayloads :
          CreateCustomer(token, customer)
    \/ \E token \in Tokens(issued), id \in 1..MaxId, patch \in CustomerPatches :
          UpdateCustomer(token, id, patch)
    \/ \E token \in Tokens(issued), id \in 1..MaxId : DeleteCustomer(token, id)
    \/ \E token \in Tokens(issued) : GetCustomers(token)

SpecCust == InitCrm /\ [][NextCust]_vars

---------------------------------------------------------------------------
(* The tickets router called by an authorized caller, over a customers      *)
(* table that gains and loses the customer of the tests                     *)

\* assigned_agent_id of a request: null, zero, alice's id, an id no user has
AgentIds == {NoId, Id(0), Id(1), Id(MaxUsers + 1)}

TicketPayloads ==
    {TestTicket(customer_id, assigned_agent_id, "open") :
        customer_id \in 1..MaxId, assigned_agent_id \in AgentIds}

NextTick ==
    \/ \E token \in Tokens(issued) : CreateCustomer(token, TestCustomer)
    \/ \E token \in Tokens(issued), id \in 1..MaxId : DeleteCustomer(token, id)
    \/ \E token \in Tokens(issued), ticket \in TicketPayloads :
          CreateTicket(token, ticket)
    \/ \E token \in Tokens(issued), id \in 1..MaxId, ticket \in TicketPayloads :
          UpdateTicket(token, id, ticket)
    \/ \E token \in Tokens(issued), id \in 1..MaxId : DeleteTicket(token, id)
    \/ \E token \in Tokens(issued) : ReadTickets(token)

SpecTick == InitCrm /\ [][NextTick]_vars

---------------------------------------------------------------------------
(* migrate_db.py: migrate_database run against a crm.db of any age          *)

NoColumn == "<no column>"      \* what a row holds for a column it lacks
MigratedIsActive == "True"     \* ADD COLUMN is_active TEXT DEFAULT 'True'

\* ALTER TABLE t ADD COLUMN c: the statement fails when t does not exist or
\* already has c; sqlite3 runs DDL outside a transaction, so a statement
\* that succeeded stays in the file whatever follows
AlterFails(columns, c) == columns = {} \/ c \in columns

\* Mutant: is_active is added without looking at PRAGMA table_info(users)
migrate_database_unchecked(m) ==
    LET t_missing == "assigned_agent_id" \notin m.tickets
        t_fails == AlterFails(m.tickets, "assigned_agent_id")
        m1 == IF t_missing
              THEN [m EXCEPT !.tickets = @ \cup {"assigned_agent_id"},
                             !.agent = [i \in DOMAIN @ |-> None]]
              ELSE m
        a1 == IF t_missing THEN <<"ALTER TABLE tickets">> ELSE <<>>
        u_fails == AlterFails(m.users, "is_active")
        m2 == [m1 EXCEPT !.users = @ \cup {"is_active"},
                         !.active = [i \in DOMAIN @ |-> MigratedIsActive]]
        a2 == <<"ALTER TABLE users">>
    IN  IF ~m.file
        THEN [m EXCEPT !.attempted = <<>>, !.outcome = "no file"]
        ELSE IF t_missing /\ t_fails
        THEN [m EXCEPT !.attempted = a1, !.outcome = "failed"]
        ELSE IF u_fails
        THEN [m1 EXCEPT !.attempted = a1 \o a2, !.outcome = "failed"]
        ELSE [m2 EXCEPT !.attempted = a1 \o a2, !.outcome = "completed"]

\* migrate_database: migrate_db.py 20-85
migrate_database(m) ==
    LET t_missing == "assigned_agent_id" \notin m.tickets
        t_fails == AlterFails(m.tickets, "assigned_agent_id")
        m1 == IF t_missing
              THEN [m EXCEPT !.tickets = @ \cup {"assigned_agent_id"},
                             !.agent = [i \in DOMAIN @ |-> None]]
              ELSE m
        a1 == IF t_missing THEN <<"ALTER TABLE tickets">> ELSE <<>>
        u_missing == "is_active" \notin m.users
        u_fails == AlterFails(m.users, "is_active")
        m2 == IF u_missing
              THEN [m1 EXCEPT !.users = @ \cup {"is_active"},
                              !.active = [i \in DOMAIN @ |-> MigratedIsActive]]
              ELSE m1
        a2 == IF u_missing THEN <<"ALTER TABLE users">> ELSE <<>>
    IN  IF ~m.file
        THEN [m EXCEPT !.attempted = <<>>, !.outcome = "no file"]
        ELSE IF t_missing /\ t_fails
        THEN [m EXCEPT !.attempted = a1, !.outcome = "failed"]
        ELSE IF u_missing /\ u_fails
        THEN [m1 EXCEPT !.attempted = a1 \o a2, !.outcome = "failed"]
        ELSE [m2 EXCEPT !.attempted = a1 \o a2, !.outcome = "completed"]

\* python migrate_db.py
Migrate ==
    /\ mig.runs < MaxRuns
    /\ mig' = [migrate_database(mig) EXCEPT !.runs = mig.runs + 1]
    /\ UNCHANGED <<users, plain, saltCtr, clock, issued, req, resp, guard, reg,
                   customers, tickets, logs, body, arg, gd>>

\* Sequences over S of length at most n
SeqsUpTo(S, n) == UNION {[1..k -> S] : k \in 0..n}

\* The rows' values of a column the table may or may not have
ColumnValues(columns, c, values, n) ==
    IF columns = {} THEN {<<>>}
    ELSE IF c \in columns THEN SeqsUpTo(values, n)
    ELSE SeqsUpTo({NoColumn}, n)

\* Every crm.db the script may meet: no file; a file in which either table
\* is missing, old (without the new column) or current, holding any rows
StartSchemas ==
    {[CreatedSchema EXCEPT !.file = FALSE, !.tickets = {}, !.users = {}]}
    \cup
    UNION { UNION {
        {[CreatedSchema EXCEPT !.tickets = t, !.agent = a, !.users = u,
                               !.active = f] :
            a \in ColumnValues(t, "assigned_agent_id", {None, "1"}, MaxTickets),
            f \in ColumnValues(u, "is_active", FlagValues, MaxUsers)} :
        u \in {{}, UserColumns, UserColumns \cup {"is_active"}} } :
        t \in {{}, TicketColumns, TicketColumns \cup {"assigned_agent_id"}} }

InitMig ==
    /\ mig \in StartSchemas
    /\ users = <<>>
    /\ plain = <<>>
    /\ saltCtr = 0
    /\ clock = 0
    /\ issued = {}
    /\ req = NoReq
    /\ resp = Response(0, "", "")
    /\ guard = NoGuard
    /\ reg = [r \in 1..NumReq |-> IdleReg]
    /\ customers = <<>>
    /\ tickets = <<>>
    /\ logs = <<>>
    /\ body = <<>>
    /\ arg = NoArg
    /\ gd = IdleGd

NextMig == Migrate

SpecMig == InitMig /\ [][NextMig]_vars

---------------------------------------------------------------------------
(* The logs router called by an authorized caller, over tickets that are    *)
(* created and deleted                                                       *)

NextLog ==
    \/ \E token \in Tokens(issued) : CreateCustomer(token, TestCustomer)
    \/ \E token \in Tokens(issued) : CreateTicket(token, TestTicket(1, NoId, "open"))
    \/ \E token \in Tokens(issued), id \in 1..MaxId : DeleteTicket(token, id)
    \/ \E token \in Tokens(issued), id \in 1..MaxId : CreateLog(token, TestLog(id))
    \/ \E token \in Tokens(issued), id \in 1..MaxId, ticket_id \in 1..MaxId :
          UpdateLog(token, id, TestLog(ticket_id))
    \/ \E token \in Tokens(issued), id \in 1..MaxId : DeleteLog(token, id)
    \/ \E token \in Tokens(issued) : ReadLogs(token)

SpecLog == InitCrm /\ [][NextLog]_vars

---------------------------------------------------------------------------
(* GET /reports/tickets-summary over tickets of every documented status     *)

\* Ticket.status as documented in models.py
TicketStatuses == {"open", "in-progress", "resolved", "closed"}

NextReport ==
    \/ \E token \in Tokens(issued) : CreateCustomer(token, TestCustomer)
    \/ \E token \in Tokens(issued), status \in TicketStatuses :
          CreateTicket(token, TestTicket(1, NoId, status))
    \/ \E token \in Tokens(issued), id \in 1..MaxId, status \in TicketStatuses :
          UpdateTicket(token, id, TestTicket(1, NoId, status))
    \/ \E token \in Tokens(issued), id \in 1..MaxId : DeleteTicket(token, id)
    \/ \E token \in Tokens(issued) : TicketsSummary(token)

SpecReport == InitCrm /\ [][NextReport]_vars

---------------------------------------------------------------------------
(* Claims *)

DecodeErrors == {"Malformed", "BadSignature", "Expired"}

\* The last request was GET /auth/me with a token create_access_token issued
MeWithIssued == req.op = "me" /\ req.token \in Tokens(issued)

\* C1: a token create_access_token issued for subject s with a ttl > 0,
\* presented in the minute it was issued, is decoded without error and the
\* subject decoded is s.
C1_RoundTrip ==
    \A r \in issued :
        (/\ req.op = "me"
         /\ req.token = r.tok
         /\ req.at = r.at
         /\ r.sub # NoSub
         /\ r.delta # NoDelta
         /\ DeltaMinutes(r.delta) > 0)
        => /\ guard.cause \notin DecodeErrors \cup {"NoHeader", "NoSubject"}
           /\ guard.sub = r.sub

C1_Witness ==
    \E r \in issued :
        /\ req.op = "me" /\ req.token = r.tok /\ req.at = r.at
        /\ r.delta = Delta(1) /\ r.sub = "alice"
        /\ guard.cause = "" /\ guard.sub = "alice"

\* C2: a correctly signed token with expiry e is rejected (401) as expired
\* at every time now > e and is not rejected as expired at any time
\* now <= e; a token that is expired now is still expired after any step.
C2_Window ==
    MeWithIssued =>
        /\ (req.at > req.token.exp) <=> (guard.cause = "Expired")
        /\ guard.cause = "Expired" => resp = credentials_exception

C2_Stays ==
    \A t \in Tokens(issued) :
        jwt_decode(t, SECRET_KEY, clock).err = "Expired"
            => jwt_decode(t, SECRET_KEY, clock').err = "Expired"

C2_ExpiryWindow == [](C2_Window) /\ [][C2_Stays]_vars

C2_Witness ==
    /\ MeWithIssued
    /\ guard.cause = "Expired"
    /\ req.at = req.token.exp + 1

\* C3: a token get_current_user accepts is one create_access_token issued
\* under the server secret: no token with a rewritten subject, a moved
\* expiry or another signature is accepted.
C3_SignatureIntegrity ==
    (req.op = "me" /\ guard.row # NoRow) => req.token \in Tokens(issued)

C3_Witness ==
    /\ req.op = "me"
    /\ req.token \in Tampered(issued)
    /\ req.token.sub = "alice"
    /\ req.token.exp >= req.at
    /\ guard.cause = "BadSignature"
    /\ resp = credentials_exception

\* C4: authenticate_user(db, u, p) returns the record of u if and only if
\* a record with username u exists and p is the password it was registered
\* with; every stored digest verifies against its password and against no
\* other, and two registrations of the same password store two different
\* digests.
C4_Authenticate ==
    /\ \A u \in Usernames, p \in Passwords :
          LET i == authenticate_user(users, u, p)
          IN  /\ (i # NoRow) <=> (\E j \in 1..Len(users) :
                                     users[j].username = u /\ plain[j] = p)
              /\ i # NoRow => users[i].username = u /\ plain[i] = p
    /\ \A i \in 1..Len(users), p \in Passwords :
          verify_password(p, users[i].hashed_password) <=> (p = plain[i])
    /\ \A i, j \in 1..Len(users) :
          (i # j /\ plain[i] = plain[j])
              => users[i].hashed_password # users[j].hashed_password
    /\ req.op = "login" =>
          ((resp.status = 200) <=> (\E j \in 1..Len(users) :
                                       users[j].username = req.username
                                       /\ plain[j] = req.password))

C4_Witness ==
    /\ Len(users) = 2
    /\ plain[1] = plain[2]
    /\ req.op = "login"
    /\ resp.status = 200

\* C5: a login that fails answers 401 "Incorrect username or password" with
\* WWW-Authenticate: Bearer, the same for a wrong password and for an unknown
\* username, in every store state; it leaves the store unchanged.
C5_SameResponse ==
    /\ \A u \in Usernames, p \in Passwords :
          authenticate_user(users, u, p) = NoRow
              => login(users, u, p, clock) = LoginFailed
    /\ (req.op = "login" /\ resp.status # 200) => resp = LoginFailed

C5_StoreUnchanged ==
    (req' # req /\ req'.op = "login" /\ resp'.status # 200)
        => users' = users /\ plain' = plain /\ issued' = issued

C5_LoginFailure == [](C5_SameResponse) /\ [][C5_StoreUnchanged]_vars

C5_Witness ==
    /\ req.op = "login"
    /\ resp = LoginFailed
    /\ FirstByUsername(users, req.username) # NoRow
    /\ FirstByUsername(users, "bob") = NoRow

\* C6: whenever the record resolved from a correctly signed, unexpired token
\* has a false active flag in users.is_active, the request is denied with
\* 400 "Inactive user".
C6_ActiveGate ==
    (req.op = "me" /\ guard.row # NoRow /\ guard.flag \in FalseFlags)
        => resp = InactiveUser

\* C7: a malformed token, a bad signature, an expired token, a token with
\* no subject and a subject without a user record all get the response
\* 401 "Could not validate credentials", WWW-Authenticate: Bearer.
C7_Collapsed ==
    /\ (req.op = "me" /\ guard.cause \in DecodeErrors \cup {"NoSubject", "NoUser"})
          => resp = credentials_exception
    /\ \A t \in Tokens(issued) \cup Forgeries(issued) \cup {Garbage} :
          get_current_user(t, users, clock).row = NoRow
              => get_current_user(t, users, clock).resp = credentials_exception

C7_Witness ==
    /\ MeWithIssued
    /\ guard.cause = "NoUser"
    /\ req.token.sub = "bob"
    /\ resp = credentials_exception

\* C8: every registered user logs in with the registered password and gets
\* {access_token, token_type: "bearer"} with the username as subject; GET
\* /auth/me with an issued token up to its expiry resolves the user, and
\* while the record holds the is_active value register stored, answers 200
\* with the profile of that user; register answers with an active profile.
C8_Session ==
    /\ \A i \in 1..Len(users) :
          LET out == login(users, users[i].username, plain[i], clock)
          IN  /\ out.status = 200
              /\ out.token_type = "bearer"
              /\ out.access_token.sub = users[i].username
    /\ (req.op = "login" /\ resp.status = 200)
          => /\ resp.token_type = "bearer"
             /\ resp.access_token.sub = req.username
             /\ resp.access_token \in Tokens(issued)
    /\ (req.op = "register" /\ resp.status = 200)
          => /\ resp.profile.username = req.username
             /\ resp.profile.email = req.email
             /\ resp.profile.is_active
    /\ (MeWithIssued /\ req.at <= req.token.exp)
          => /\ guard.row # NoRow
             /\ users[guard.row].username = req.token.sub
             /\ guard.flag = DefaultIsActive
                   => /\ resp.status = 200
                      /\ resp.profile.id = users[guard.row].id
                      /\ resp.profile.username = req.token.sub
                      /\ resp.profile.email = users[guard.row].email
                      /\ resp.profile.role = users[guard.row].role
                      /\ resp.profile.is_active

C8_Witness ==
    /\ MeWithIssued
    /\ req.at = req.token.exp
    /\ resp.status = 200
    /\ resp.profile.username = "alice"
    /\ resp.profile.is_active
    /\ guard.flag = DefaultIsActive

\* C9: a register request whose username or whose email is that of a record
\* existing when it arrives ends with the 400 conflict response and does not
\* change the users table.
C9_Step ==
    \A r \in 1..NumReq :
        (reg[r].dup /\ reg[r].pc # "done" /\ reg'[r].pc = "done")
            => /\ reg'[r].resp \in {UsernameTaken, EmailTaken}
               /\ users' = users

C9_DuplicateRejected == [][C9_Step]_vars

C9_Witness ==
    \E r \in 1..NumReq :
        /\ reg[r].pc = "done"
        /\ reg[r].dup
        /\ reg[r].resp = EmailTaken
        /\ FirstByUsername(users, reg[r].username) = NoRow

\* C10: no two user records have the same username and no two have the same
\* email, after any interleaving of register requests.
C10_Unique ==
    \A i, j \in 1..Len(users) :
        i # j => users[i].username # users[j].username
                 /\ users[i].email # users[j].email

C10_Witness ==
    /\ Len(users) = 2
    /\ \E r \in 1..NumReq : reg[r].pc = "done" /\ reg[r].resp = ServerError

\* The records of tokens POST /auth/login returned
LoginIssued == {r \in issued : r.delta = Delta(LoginExpireMinutes)}

\* C12: a token login issued for user u is accepted by the resolver at every
\* time up to and including its expiry while the record of u exists and is
\* active, whatever requests were served in between; a newer token does not
\* invalidate an older one.
C12_NoEarlyRevocation ==
    /\ \A r \in LoginIssued :
          LET row == FirstByUsername(users, r.sub)
          IN  (/\ clock <= r.tok.exp
               /\ row # NoRow
               /\ users[row].is_active = StoreFlag(TRUE))
              => get_current_active_user(r.tok, users, clock).cause = ""
    /\ \A r \in LoginIssued :
          (/\ req.op = "me" /\ req.token = r.tok
           /\ req.at <= r.tok.exp
           /\ guard.row # NoRow
           /\ guard.flag = StoreFlag(TRUE))
          => guard.cause = "" /\ resp.status = 200

\* an older token is presented after a newer one was issued to the same
\* user, in the last minute of its life, and is accepted
C12_Witness ==
    \E r1 \in LoginIssued, r2 \in LoginIssued :
        /\ r1.sub = r2.sub /\ r1.at < r2.at
        /\ req.op = "me" /\ req.token = r1.tok
        /\ req.at >= r2.at /\ req.at = r1.tok.exp
        /\ guard.cause = "" /\ resp.status = 200

\* C13: the token POST /auth/login returns at time t0 carries expiry
\* t0 + 30 minutes: it is not rejected as expired at any time t <= t0 + 30
\* and is rejected as expired at every time t > t0 + 30.
C13_LoginLifetime ==
    /\ (req.op = "login" /\ resp.status = 200)
          => /\ resp.access_token.exp = req.at + LoginExpireMinutes
             /\ resp.access_token \in Tokens(LoginIssued)
    /\ \A r \in LoginIssued :
          (req.op = "me" /\ req.token = r.tok)
          => /\ r.tok.exp = r.at + LoginExpireMinutes
             /\ (req.at <= r.at + LoginExpireMinutes) => guard.cause # "Expired"
             /\ (req.at > r.at + LoginExpireMinutes)
                   => guard.cause = "Expired" /\ resp = credentials_exception

\* a login token is presented one minute after its thirty minutes ran out
C13_Witness ==
    \E r \in LoginIssued :
        /\ req.op = "me" /\ req.token = r.tok
        /\ req.at = r.at + LoginExpireMinutes + 1
        /\ guard.cause = "Expired"

\* C14: for every ttl the caller supplies, positive, zero or negative, the
\* token create_access_token returns expires at now + ttl; the default
\* lifetime is used only when no ttl is supplied.
C14_TtlHonoured ==
    \A r \in issued :
        /\ r.delta # NoDelta => r.tok.exp = r.at + DeltaMinutes(r.delta)
        /\ r.delta = NoDelta => r.tok.exp = r.at + DefaultExpireMinutes

\* C17: of two interleaved register requests with the same username or the
\* same email one creates the record and the other is answered 400; no
\* register request ends in another error.
C17_RaceConflict ==
    \A r \in 1..NumReq :
        reg[r].pc = "done"
        => \/ reg[r].resp.status = 200
           \/ reg[r].resp \in {UsernameTaken, EmailTaken}

\* The edges of the resolver's state machine
GuardEdges ==
    { <<"Idle", "Presented">>, <<"Authorized", "Presented">>,
      <<"Denied", "Presented">>,
      <<"Presented", "Decoded">>, <<"Presented", "Denied">>,
      <<"Decoded", "LookedUp">>, <<"Decoded", "Denied">>,
      <<"LookedUp", "Authorized">>, <<"LookedUp", "Denied">> }

\* C15: a request reaches Authorized only after token decode (signature,
\* subject present, not expired), then user lookup by the decoded subject,
\* then the active check, in this order; each stage can end in Denied, and a
\* Denied request never becomes Authorized.
C15_Stages ==
    /\ gd.pc = "Presented" => gd.passed = <<>>
    /\ gd.pc = "Decoded" => gd.passed = <<"decode">>
    /\ gd.pc = "LookedUp" => gd.passed = <<"decode", "lookup">>
    /\ gd.pc = "Authorized" => gd.passed = <<"decode", "lookup", "active">>
    /\ Len(gd.passed) >= 1
          => /\ gd.token.kind = "jwt"
             /\ gd.token.sig = Sign(SECRET_KEY, gd.token.sub, gd.token.exp)
             /\ gd.token.sub # NoSub /\ gd.sub = gd.token.sub
             /\ gd.at <= gd.token.exp
    /\ Len(gd.passed) >= 2 => gd.row[1].username = gd.sub
    /\ Len(gd.passed) >= 3 => Truthy(gd.row[1].is_active)

C15_Edge ==
    gd' # gd
    => /\ <<gd.pc, gd'.pc>> \in GuardEdges
       /\ gd.pc = "Denied" => gd'.passed = <<>>

C15_GuardOrder == [](C15_Stages) /\ [][C15_Edge]_vars

\* a request that passed decode and lookup is denied by the active check
C15_Witness ==
    /\ gd.pc = "Denied"
    /\ gd.passed = <<"decode", "lookup">>
    /\ gd.resp = InactiveUser

\* The requests behind Depends(get_current_active_user)
GatedOps == ProtectedOps \cup {"me"}

\* C11: no handler of the customers, tickets, logs or reports routers, nor
\* GET /auth/me, reads or modifies a record unless the resolver authorized
\* the request; a request without header or with a token the resolver
\* denies leaves customers, tickets and logs unchanged and returns no data.
C11_NoData ==
    (req.op \in GatedOps /\ guard.cause # "")
    => /\ req.op \in ProtectedOps => body = <<>>
       /\ resp.profile = NoProfile
       /\ resp \in {NotAuthenticated, credentials_exception, InactiveUser}

C11_NoWrite ==
    (req'.op \in GatedOps /\ guard'.cause # "")
    => UNCHANGED <<customers, tickets, logs>>

C11_Gated == [](C11_NoData) /\ [][C11_NoWrite]_vars

\* DELETE /tickets/1 without Authorization header while ticket 1 exists
C11_Witness ==
    /\ req.op = "delete_ticket"
    /\ guard.cause = "NoHeader"
    /\ RowOf(tickets, arg.id) # NoRow
    /\ resp = NotAuthenticated

\* C16: authenticate_user, login, get_current_user, get_current_active_user
\* and GET /auth/me, succeeding or failing, leave every user record and all
\* other tables unchanged, so the same request repeated at the same time
\* gets the same response.
C16_Step ==
    /\ req'.op \in GatedOps \cup {"login"} => users' = users
    /\ req'.op \in {"login", "me"} => UNCHANGED <<customers, tickets, logs>>
    /\ req'.op = "me" => resp' = read_users_me(req'.token, users', clock')
    /\ req'.op = "login"
          => resp' = login(users', req'.username, req'.password, clock')

C16_ReadOnly == [][C16_Step]_vars

\* a login succeeded while customers and tickets hold records
C16_Witness ==
    /\ req.op = "login" /\ resp.status = 200
    /\ customers # <<>> /\ tickets # <<>>

CustomerFields == {"name", "email", "phone", "company", "notes"}

\* C18: for an authorized caller every call of create_customer with a
\* well-formed payload is answered 200, adds one customer whose fields equal
\* the payload and returns it with its id, also when the same payload was
\* posted before.
C18_CreateSucceeds ==
    (req.op = "create_customer" /\ guard.cause = "")
    => /\ resp = Ok
       /\ Len(body) = 1
       /\ \A f \in CustomerFields : body[1][f] = arg.payload[f]
       /\ RowOf(customers, body[1].id) # NoRow
       /\ customers[RowOf(customers, body[1].id)] = body[1]

\* The step serves PUT /customers/{id} for an authorized caller
UpdateServed == req'.op = "update_customer" /\ guard'.cause = ""

\* customers after the step: row i patched with the request, the rest kept
PatchApplied(i) ==
    /\ Len(customers') = Len(customers)
    /\ \A j \in 1..Len(customers) : j # i => customers'[j] = customers[j]
    /\ customers'[i].id = customers[i].id
    /\ \A f \in CustomerFields :
          customers'[i][f] = IF arg'.payload[f] # Unset THEN arg'.payload[f]
                             ELSE customers[i][f]

\* C20 as stated: update_customer on an existing customer sets exactly the
\* fields present in the request and leaves the absent fields and the other
\* customers unchanged; on an unknown id it answers 404 and changes nothing.
C20_Step ==
    UpdateServed
    => LET i == RowOf(customers, arg'.id)
       IN  IF i = NoRow
           THEN resp' = NotFound("Customer not found") /\ customers' = customers
           ELSE PatchApplied(i)

C20_PartialUpdate == [][C20_Step]_vars

\* The request would store a null name, or an email another customer holds
Refused(i) ==
    \/ arg'.payload.name = None
    \/ /\ arg'.payload.email \notin {Unset, None}
       /\ \E j \in 1..Len(customers) :
             j # i /\ customers[j].email = arg'.payload.email

\* C20 amended: as stated, except that a request which sets name to null or
\* email to the email of another customer is refused with an error response
\* and changes nothing.
C20_StepAmended ==
    UpdateServed
    => /\ UNCHANGED <<tickets, logs, users>>
       /\ LET i == RowOf(customers, arg'.id)
          IN  IF i = NoRow
              THEN resp' = NotFound("Customer not found") /\ customers' = customers
              ELSE IF Refused(i)
              THEN resp'.status # Ok.status /\ body' = <<>> /\ customers' = customers
              ELSE PatchApplied(i)

C20_PartialUpdateAmended == [][C20_StepAmended]_vars

\* name and phone were written, email, company and notes kept, and another
\* customer exists
C20_Witness ==
    /\ req.op = "update_customer" /\ guard.cause = "" /\ resp = Ok
    /\ arg.payload.name = "Renamed" /\ arg.payload.email = Unset
    /\ Len(customers) = 2
    /\ \E i \in 1..Len(customers) :
          /\ customers[i].id = arg.id
          /\ customers[i].name = "Renamed" /\ customers[i].phone = None
          /\ customers[i].email = "customer@example.com"

\* C19: create_ticket and update_ticket answer 404 "Assigned agent not
\* found", storing nothing, to every request whose assigned_agent_id is an
\* integer (0 included) that is not the id of a user; so every stored
\* ticket's assigned_agent_id is null or the id of a user.
C19_AssignedAgent ==
    /\ \A i \in 1..Len(tickets) :
          \/ tickets[i].assigned_agent_id = NoId
          \/ AgentExists(users, tickets[i].assigned_agent_id)
    /\ (/\ req.op \in {"create_ticket", "update_ticket"}
        /\ guard.cause = ""
        /\ arg.payload.assigned_agent_id # NoId
        /\ ~AgentExists(users, arg.payload.assigned_agent_id))
       => /\ resp \in {NotFound("Assigned agent not found"),
                       NotFound("Customer not found"),
                       NotFound("Ticket not found")}
          /\ body = <<>>

\* What migrate_database can change in crm.db
Stored(m) == <<m.file, m.tickets, m.agent, m.users, m.active>>

\* C21: migrate_database run a second time in a row leaves the schema and
\* the data the first run left, and when both tables exist executes no
\* ALTER TABLE; a run adds a column only to a table that lacks it and keeps
\* the rows' values in the columns that existed.
C21_Step ==
    mig'.runs = mig.runs + 1
    => /\ mig.runs >= 1
          => /\ Stored(mig') = Stored(mig)
             /\ (mig.tickets # {} /\ mig.users # {}) => mig'.attempted = <<>>
       /\ mig'.tickets \ mig.tickets \subseteq {"assigned_agent_id"}
       /\ mig'.users \ mig.users \subseteq {"is_active"}
       /\ mig.tickets \subseteq mig'.tickets /\ mig.users \subseteq mig'.users
       /\ "assigned_agent_id" \in mig.tickets => mig'.agent = mig.agent
       /\ "is_active" \in mig.users => mig'.active = mig.active
       /\ Len(mig'.agent) = Len(mig.agent) /\ Len(mig'.active) = Len(mig.active)

C21_Idempotent == [][C21_Step]_vars

\* the second run on a file whose two populated tables both lacked their
\* column before the first
C21_Witness ==
    /\ mig.runs = MaxRuns /\ mig.outcome = "completed"
    /\ mig.attempted = <<>>
    /\ Len(mig.active) >= 1 /\ mig.active[1] = MigratedIsActive
    /\ Len(mig.agent) >= 1 /\ mig.agent[1] = None

\* Rows of users whose flag says "not active"
InactiveRows == {i \in 1..Len(users) : users[i].is_active \in FalseFlags}

\* C22 (login): for a user whose record is inactive, login with the correct
\* password succeeds and issues a token.
C22_LoginSucceeds ==
    \A i \in InactiveRows :
        /\ authenticate_user(users, users[i].username, plain[i]) = i
        /\ login(users, users[i].username, plain[i], clock).status = 200

\* C22 (requests): every protected request made with the unexpired login
\* token of an inactive user is denied with 400 "Inactive user".
C22_RequestsDenied ==
    \A r \in LoginIssued :
        LET i == FirstByUsername(users, r.sub)
        IN  (i \in InactiveRows /\ clock <= r.tok.exp)
            => /\ get_current_active_user(r.tok, users, clock).row = NoRow
               /\ get_current_active_user(r.tok, users, clock).resp = InactiveUser
               /\ read_users_me(r.tok, users, clock) = InactiveUser

\* C22: login does not gate on the active flag, the resolver does.
C22_InactiveUser == C22_LoginSucceeds /\ C22_RequestsDenied

\* C23: after any sequence of create, update and delete operations on
\* customers and tickets, each stored ticket's customer_id is the id of an
\* existing customer.
C23_TicketCustomer ==
    \A i \in 1..Len(tickets) :
        \E j \in 1..Len(customers) : tickets[i].customer_id = Id(customers[j].id)

\* C24: after any sequence of create, update and delete operations on
\* tickets and logs, each stored log's ticket_id is the id of an existing
\* ticket.
C24_LogTicket ==
    \A i \in 1..Len(logs) :
        \E j \in 1..Len(tickets) : logs[i].ticket_id = Id(tickets[j].id)

\* Number of stored tickets whose status is s
StoredWith(s) == Cardinality({i \in 1..Len(tickets) : tickets[i].status = s})

\* C25: get_tickets_summary returns open, in_progress and resolved equal to
\* the numbers of stored tickets with status "open", "in-progress" and
\* "resolved", and total_tickets equal to the number of all stored tickets.
C25_SummaryTotals ==
    (req.op = "get_tickets_summary" /\ guard.cause = "")
    => /\ resp = Ok /\ Len(body) = 1
       /\ body[1].open = StoredWith("open")
       /\ body[1].in_progress = StoredWith("in-progress")
       /\ body[1].resolved = StoredWith("resolved")
       /\ body[1].total_tickets = Len(tickets)

\* No two stored customers hold the same email
C26_NoDuplicate ==
    \A i \in 1..Len(customers), j \in 1..Len(customers) :
        (i # j /\ customers[i].email # None)
        => customers[i].email # customers[j].email

\* The request being served would store an email another customer holds
WouldDuplicate ==
    /\ guard'.cause = ""
    /\ \/ /\ req'.op = "create_customer"
          /\ \E j \in 1..Len(customers) : customers[j].email = arg'.payload.email
       \/ /\ req'.op = "update_customer"
          /\ RowOf(customers, arg'.id) # NoRow
          /\ arg'.payload.email \notin {Unset, None}
          /\ \E j \in 1..Len(customers) :
                /\ j # RowOf(customers, arg'.id)
                /\ customers[j].email = arg'.payload.email

\* The 4xx status codes
ClientErrors == 400..499

C26_Step == WouldDuplicate => resp'.status \in ClientErrors /\ customers' = customers

\* C26: after any sequence of create_customer and update_customer calls no
\* two stored customers have the same email, and a call that would
\* introduce a duplicate email is answered with a client error (4xx) and
\* leaves the customers table unchanged.
C26_UniqueEmail == [](C26_NoDuplicate) /\ [][C26_Step]_vars
====
